---- MODULE Spec2Model ----
(***************************************************************************)
(* Model of firebase_listener.py: the Firestore listener that admits       *)
(* pending scan documents (on_snapshot) and the per-job worker thread that *)
(* drives the scan engine and writes status, progress and logs back to the *)
(* job document (run_scan_bot).                                            *)
(*                                                                         *)
(* Every scan_doc_ref.update(...) is one step of its thread; it either     *)
(* succeeds (the fields are merged into the document) or raises (nothing   *)
(* is written).  The scan engine (roktracker.kingdom.scanner) lives        *)
(* outside this file: it is modelled as an environment that calls the      *)
(* three registered callbacks, returns, raises, or never moves again.     *)
(*                                                                         *)
(* Spec is the listener with its threads.  SpecRunning starts it from a    *)
(* job in mid-run, SpecLive adds a reliable document store and scheduled   *)
(* threads.  SpecOptions and SpecResolve take _build_scan_options and the  *)
(* configuration code of run_scan_bot (lines 96-143) on their own, as      *)
(* functions of the job fields.                                            *)
(***************************************************************************)
EXTENDS Integers, Sequences, FiniteSets, Bags, TLC

\* ---------------------------------------------------------------- bounds

\* Threads the listener may start in one behaviour.
MaxRunners == 2
\* Callbacks the scan engines may fire in one behaviour.
MaxEvents == 1
\* Document-store writes that may fail in one behaviour.
MaxFaults == 1
\* Largest governor index / governor target the engine reports.
MaxGov == 2
\* Keys an overrides dict handed to _build_scan_options may carry.
MaxOverrides == 2
\* Job fields a document may carry besides scanOptions.
MaxFields == 2

\* ------------------------------------------------------------- constants

\* Job documents of the watched collection.
Docs == {"d1", "d2"}

\* change.type.name as delivered by the change feed.
ChangeTypes == {"ADDED", "MODIFIED", "REMOVED"}

\* scan_data.get('status'): "none" stands for a document without the field.
SnapStatuses == {"none", "pending", "running", "completed", "failed"}

\* scan_data.get("amount", ...): a value int() accepts and one it rejects.
Amounts == {"50", "abc"}

\* The engine phase name handed to state_callback, and a line handed to the
\* output handler.
EngineState == "scanning"
EngineLine == "governor scanned"

\* str(e) of the exceptions a job can meet.
ErrEngine == "engine failure"
ErrDivZero == "division by zero"
ErrStore == "document store unavailable"
ErrResolve == "invalid literal for int() with base 10: 'abc'"
NoErr == ""

StartMarker == "[BOT] Job received. Starting scanner..."
DoneMarker == "[BOT] Scan completed successfully."

StateLine(state) == "[STATE] " \o state
ErrorLine(e) == "[BOT] Error: " \o e

\* ----------------------------------------------------------------- state

VARIABLES
    docs,        \* the collection: document id -> [status, progress, logs]
    runners,     \* the run_scan_bot threads started so far: a bag of thread states
    events,      \* callbacks fired by the scan engines so far
    faults,      \* document-store writes that have failed so far
    mode,        \* _build_scan_options: its first argument
    overrides,   \* _build_scan_options: its second argument, scan_data.get("scanOptions")
    scan_options,\* _build_scan_options: what it returned, <<>> until it has
    scan_data,   \* the job fields lines 96-143 read (all but scanOptions)
    job_spec     \* what lines 96-143 made of scan_data, <<>> until they have run

vars == <<docs, runners, events, faults, mode, overrides, scan_options, scan_data, job_spec>>

\* The variables of one call of the configuration code taken on its own.
call == <<mode, overrides, scan_options, scan_data, job_spec>>

\* A change of a batch: change.type.name, change.document.id and the fields
\* change.document.to_dict() returns.
Changes == [type : ChangeTypes, doc : Docs, status : SnapStatuses]

\* The states of the threads started so far.
Threads == BagToSet(runners)

Terminal == {"completed", "failed"}

\* ------------------------------------------------------- document store

Range(s) == {s[i] : i \in 1..Len(s)}

\* firestore.ArrayUnion: an element already in the array is not added again.
ArrayUnion(logs, msg) == IF msg \in Range(logs) THEN logs ELSE Append(logs, msg)

\* scan_doc_ref.update({"status": "running", "progress": 0, "logs": ArrayUnion([...])})
UpdateStarted(doc) ==
    [status |-> "running", progress |-> 0, logs |-> ArrayUnion(doc.logs, StartMarker)]

\* scan_doc_ref.update({"logs": firestore.ArrayUnion([msg])})
UpdateLogs(doc, msg) == [doc EXCEPT !.logs = ArrayUnion(doc.logs, msg)]

\* scan_doc_ref.update({"progress": progress})
UpdateProgress(doc, progress) == [doc EXCEPT !.progress = progress]

\* Faulty variant: the terminal write of a normal run sets the status alone.
UpdateCompletedStatusOnly(doc) == [doc EXCEPT !.status = "completed"]

\* scan_doc_ref.update({"status": "completed", "progress": 100})
UpdateCompleted(doc) == [doc EXCEPT !.status = "completed", !.progress = 100]

\* Faulty variant: the failure write also resets progress.
UpdateFailedResetsProgress(doc) == [doc EXCEPT !.status = "failed", !.progress = 0]

\* scan_doc_ref.update({"status": "failed"})
UpdateFailed(doc) == [doc EXCEPT !.status = "failed"]

\* ----------------------------------------------------------- dispatcher

\* Faulty variant: every added document is admitted, whatever its status.
QualifiesAnyStatus(c) == c.type = "ADDED"

\* The test of on_snapshot's loop body: an added document whose fields say pending.
Qualifies(c) == c.type = "ADDED" /\ c.status = "pending"

\* threading.Thread(target=run_scan_bot, args=(scan_doc.reference, scan_data)):
\* the new thread holds its own document reference and its own scan_data.
NewRunner(c) == [doc |-> c.doc, pc |-> "start", err |-> NoErr]

\* Faulty variant: the loop joins the threads it has started.
LoopAfterJoin(rs) == \A t \in BagToSet(rs) : t.pc \in {"returned", "raised"}

\* bot_thread.start() returns at once and the thread is never joined: the
\* loop goes on whatever the threads started earlier are doing.
LoopMayProceed(rs) == TRUE

\* on_snapshot at one change of the batch it was called with.  The loop
\* carries nothing from one change to the next and the function returns
\* nothing, so a call with n changes is n of these steps.
on_snapshot(c) ==
    /\ LoopMayProceed(runners)
    /\ IF Qualifies(c)
       THEN /\ BagCardinality(runners) < MaxRunners
            /\ runners' = runners (+) SetToBag({NewRunner(c)})
       ELSE UNCHANGED runners
    /\ UNCHANGED <<docs, events, faults>>

\* --------------------------------------------------------------- runner

\* Faulty variant: one document reference shared by all threads.
DocRefShared(rs, t) == CHOOSE d \in {u.doc : u \in BagToSet(rs)} : TRUE

\* The document a thread writes: the scan_doc_ref its closures captured.
DocRef(rs, t) == t.doc

\* Thread t of rs has moved on to state u.
Step(rs, t, u) == (rs (-) SetToBag({t})) (+) SetToBag({u})

\* Faulty variant: the except block swallows the exception and writes nothing.
CaughtAndDropped(t, e) == [t EXCEPT !.pc = "returned", !.err = NoErr]

\* An exception raised inside the try block lands in `except Exception as e`.
Caught(t, e) == [t EXCEPT !.pc = "except_log", !.err = e]

\* An exception raised outside the try block, or inside the except block,
\* leaves run_scan_bot: the thread dies with it.
Escaped(t, e) == [t EXCEPT !.pc = "raised", !.err = e]

Goto(t, pc) == [t EXCEPT !.pc = pc]

\* run_scan_bot returns: the caught exception, a local, is gone.
Returned(t) == [t EXCEPT !.pc = "returned", !.err = NoErr]

\* scan_doc_ref.update(...) succeeds: the fields are merged into the document.
Written(d, new) ==
    /\ docs' = [docs EXCEPT ![d] = new]
    /\ UNCHANGED faults

\* scan_doc_ref.update(...) raises: the document is left as it was.
Refused ==
    /\ faults < MaxFaults
    /\ faults' = faults + 1
    /\ UNCHANGED docs

\* int(...) of a job field raises for a non-numeric value.
Coercible(amount) == amount # "abc"

\* Faulty variant: the engine is entered whatever the job fields hold.
ResolvedUnchecked(t, amount) == Goto(t, "engine")

\* Lines 96-148, which touch nothing but the thread's own locals: the
\* configuration is resolved from scan_data (amount is what
\* scan_data.get("amount", ...) returns) and, if that did not raise, the engine
\* is built and start_scan is entered.
Resolved(t, amount) == IF Coercible(amount) THEN Goto(t, "engine")
                                            ELSE Caught(t, ErrResolve)

\* Lines 76-82: the first write, before the try block; then lines 96-148.
report_started(t, amount, ok) ==
    /\ t.pc = "start"
    /\ IF ok
       THEN /\ Written(DocRef(runners, t), UpdateStarted(docs[DocRef(runners, t)]))
            /\ runners' = Step(runners, t, Resolved(t, amount))
       ELSE /\ Refused
            /\ runners' = Step(runners, t, Escaped(t, ErrStore))
    /\ UNCHANGED events

\* gov_callback's arithmetic: int(current_governor / target_governor * 100).
\* For the operands of this model the float result truncates to the integer
\* quotient.
Progress(current, target) == (current * 100) \div target

\* A callback's write from inside scanner.start_scan(...): an exception it
\* raises travels up through the engine into the try block of run_scan_bot.
CallbackWrite(t, new, ok) ==
    /\ t.pc = "engine"
    /\ events < MaxEvents
    /\ events' = events + 1
    /\ IF ok
       THEN /\ Written(DocRef(runners, t), new)
            /\ UNCHANGED runners
       ELSE /\ Refused
            /\ runners' = Step(runners, t, Caught(t, ErrStore))

\* log_to_firestore(msg) as the engine's output handler.
log_to_firestore(t, ok) ==
    CallbackWrite(t, UpdateLogs(docs[DocRef(runners, t)], EngineLine), ok)

\* state_callback(state): log_to_firestore(f"[STATE] {state}").
state_callback(t, ok) ==
    CallbackWrite(t, UpdateLogs(docs[DocRef(runners, t)], StateLine(EngineState)), ok)

\* gov_callback(_, extra) divides before it writes: a target of 0 raises
\* ZeroDivisionError inside the callback and no write is issued.
gov_callback(t, current, target, ok) ==
    IF target = 0
    THEN /\ t.pc = "engine"
         /\ events < MaxEvents
         /\ events' = events + 1
         /\ runners' = Step(runners, t, Caught(t, ErrDivZero))
         /\ UNCHANGED <<docs, faults>>
    ELSE CallbackWrite(t, UpdateProgress(docs[DocRef(runners, t)], Progress(current, target)), ok)

\* scanner.start_scan(...) raises.
engine_raise(t) ==
    /\ t.pc = "engine"
    /\ runners' = Step(runners, t, Caught(t, ErrEngine))
    /\ UNCHANGED <<docs, events, faults>>

\* scanner.start_scan(...) returns normally; line 162:
\* log_to_firestore("[BOT] Scan completed successfully.").
log_completed(t, ok) ==
    /\ t.pc = "engine"
    /\ IF ok
       THEN /\ Written(DocRef(runners, t), UpdateLogs(docs[DocRef(runners, t)], DoneMarker))
            /\ runners' = Step(runners, t, Goto(t, "report_done"))
       ELSE /\ Refused
            /\ runners' = Step(runners, t, Caught(t, ErrStore))
    /\ UNCHANGED events

\* Line 163: the terminal write of the try block, then the function returns.
report_completed(t, ok) ==
    /\ t.pc = "report_done"
    /\ IF ok
       THEN /\ Written(DocRef(runners, t), UpdateCompleted(docs[DocRef(runners, t)]))
            /\ runners' = Step(runners, t, Returned(t))
       ELSE /\ Refused
            /\ runners' = Step(runners, t, Caught(t, ErrStore))
    /\ UNCHANGED events

\* Lines 166-167: error_log = f"[BOT] Error: {e}"; log_to_firestore(error_log).
log_error(t, ok) ==
    /\ t.pc = "except_log"
    /\ IF ok
       THEN /\ Written(DocRef(runners, t), UpdateLogs(docs[DocRef(runners, t)], ErrorLine(t.err)))
            /\ runners' = Step(runners, t, Goto(t, "except_report"))
       ELSE /\ Refused
            /\ runners' = Step(runners, t, Escaped(t, ErrStore))
    /\ UNCHANGED events

\* Line 168: the terminal write of the except block, then the function returns.
report_failed(t, ok) ==
    /\ t.pc = "except_report"
    /\ IF ok
       THEN /\ Written(DocRef(runners, t), UpdateFailed(docs[DocRef(runners, t)]))
            /\ runners' = Step(runners, t, Returned(t))
       ELSE /\ Refused
            /\ runners' = Step(runners, t, Escaped(t, ErrStore))
    /\ UNCHANGED events

\* One step of thread t: the steps of run_scan_bot, as Next lists them.
run_scan_bot(t) ==
    \/ \E amount \in Amounts, ok \in BOOLEAN : report_started(t, amount, ok)
    \/ \E ok \in BOOLEAN : state_callback(t, ok)
    \/ \E ok \in BOOLEAN : log_to_firestore(t, ok)
    \/ \E current, target \in 0..MaxGov, ok \in BOOLEAN : gov_callback(t, current, target, ok)
    \/ engine_raise(t)
    \/ \E ok \in BOOLEAN : log_completed(t, ok)
    \/ \E ok \in BOOLEAN : report_completed(t, ok)
    \/ \E ok \in BOOLEAN : log_error(t, ok)
    \/ \E ok \in BOOLEAN : report_failed(t, ok)

\* -------------------------------------------------------- scan options

\* DEFAULT_SCAN_OPTIONS_FULL, key by key.
DEFAULT_SCAN_OPTIONS_FULL ==
    ("ID" :> TRUE) @@ ("Name" :> TRUE) @@ ("Power" :> TRUE) @@
    ("Killpoints" :> TRUE) @@ ("Alliance" :> TRUE) @@
    ("T1 Kills" :> TRUE) @@ ("T2 Kills" :> TRUE) @@ ("T3 Kills" :> TRUE) @@
    ("T4 Kills" :> TRUE) @@ ("T5 Kills" :> TRUE) @@
    ("Ranged" :> TRUE) @@ ("Deads" :> TRUE) @@
    ("Rss Assistance" :> TRUE) @@ ("Rss Gathered" :> TRUE) @@ ("Helps" :> TRUE)

\* DEFAULT_SCAN_OPTIONS_SEED: the full profile unpacked, then ten keys set to False.
DEFAULT_SCAN_OPTIONS_SEED ==
    ("T1 Kills" :> FALSE) @@ ("T2 Kills" :> FALSE) @@ ("T3 Kills" :> FALSE) @@
    ("T4 Kills" :> FALSE) @@ ("T5 Kills" :> FALSE) @@
    ("Ranged" :> FALSE) @@ ("Deads" :> FALSE) @@
    ("Rss Assistance" :> FALSE) @@ ("Rss Gathered" :> FALSE) @@ ("Helps" :> FALSE) @@
    [k \in DOMAIN DEFAULT_SCAN_OPTIONS_FULL |-> DEFAULT_SCAN_OPTIONS_FULL[k]]

\* A Python value is written as str() prints it: "50" is the number 50 (or the
\* string of its digits, which int(), float() and bool() treat alike), "abc" a
\* string, "" the empty string, "True", "False" and "None" the constants.
\* bool(v): False, 0, the empty string and None are false, every other value
\* is true.
bool(v) == v \notin {"False", "0", "", "None"}

\* An optional argument: <<>> is None, <<m>> is the dict m.
None == <<>>
Some(m) == <<m>>

\* `if overrides:` - None and the empty dict are both false.
Truthy(o) == o # None /\ DOMAIN o[1] # {}

\* Faulty variant: the overrides are merged into the profile, key by key.
build_scan_options_merged(m, o) ==
    LET options == IF m = "seed" THEN DEFAULT_SCAN_OPTIONS_SEED
                                 ELSE DEFAULT_SCAN_OPTIONS_FULL
    IN  IF Truthy(o)
        THEN [key \in DOMAIN o[1] |-> bool(o[1][key])] @@ options
        ELSE options

\* _build_scan_options(mode, overrides)
build_scan_options(m, o) ==
    LET profile == IF m = "seed" THEN DEFAULT_SCAN_OPTIONS_SEED
                                 ELSE DEFAULT_SCAN_OPTIONS_FULL
        options == [k \in DOMAIN profile |-> profile[k]]
    IN  IF Truthy(o)
        THEN [key \in DOMAIN options |->
                 IF key \in DOMAIN o[1] THEN bool(o[1][key]) ELSE options[key]]
        ELSE options

\* The mode strings a job may carry: the two profiles and an unknown one.
Modes == {"seed", "full", "quick"}

\* The keys an overrides dict may carry: the option names and a foreign one.
OverrideKeys == DOMAIN DEFAULT_SCAN_OPTIONS_FULL \cup {"City Hall"}

\* The values an overrides dict may carry: booleans, a number, a string.
OverrideValues == {"True", "False", "0", "false"}

\* The overrides arguments: None, or a dict of at most MaxOverrides keys.
Overrides ==
    {None} \cup
    {Some(m) : m \in UNION {[K -> OverrideValues] :
                   K \in {S \in SUBSET OverrideKeys : Cardinality(S) <= MaxOverrides}}}

\* No call of the configuration code is under way.
NoCall ==
    /\ mode = "full"
    /\ overrides = None
    /\ scan_options = <<>>
    /\ scan_data = <<>>
    /\ job_spec = <<>>

\* One call of _build_scan_options, from its arguments to its return value.
call_build_scan_options ==
    /\ scan_options = <<>>
    /\ scan_options' = build_scan_options(mode, overrides)
    /\ UNCHANGED <<docs, runners, events, faults, mode, overrides, scan_data, job_spec>>

InitOptions ==
    /\ docs = [d \in Docs |-> [status |-> "pending", progress |-> 0, logs |-> <<>>]]
    /\ runners = EmptyBag
    /\ events = 0
    /\ faults = 0
    /\ mode \in Modes
    /\ overrides \in Overrides
    /\ scan_options = <<>>
    /\ scan_data = <<>>
    /\ job_spec = <<>>

NextOptions == call_build_scan_options

SpecOptions == InitOptions /\ [][NextOptions]_vars

\* ----------------------------------------------------- job configuration

\* The job fields lines 96-139 read with scan_data.get (scanOptions apart,
\* which is held in overrides).
JobKeys ==
    {"adbPort", "kingdom", "amount", "mode", "resume", "advancedScroll",
     "trackInactives", "validateKills", "reconstructKills", "validatePower",
     "powerThreshold", "infoTime", "govTime", "formats"}

\* A dict of output formats, as the web application stores it.
FormatsDict == "{'csv': True}"

\* The values a job field may hold: a number, two strings that are no
\* integers, a boolean, a dict.
FieldValues == {"50", "abc", "1e3", "False", FormatsDict}

\* load_config(): the process-wide defaults, as the configuration file of a
\* working installation holds them.
config ==
    [adb_port |-> "5555", kingdom_name |-> "", people_to_scan |-> "600",
     resume |-> "False", advanced_scroll |-> "True", track_inactives |-> "False",
     validate_kills |-> "True", reconstruct_kills |-> "True",
     validate_power |-> "False", power_threshold |-> "100",
     info_close |-> "1", gov_close |-> "1", formats |-> "{'xlsx': True}"]

\* int(v) for the values int() accepts: numbers, strings of digits, booleans.
IntValues ==
    ("50" :> 50) @@ ("5555" :> 5555) @@ ("600" :> 600) @@ ("100" :> 100) @@
    ("1" :> 1) @@ ("0" :> 0) @@ ("False" :> 0) @@ ("True" :> 1)

\* float(v) for the values float() accepts: those of int() and strings in
\* exponent notation.  The values of this model are whole numbers.
FloatValues == ("1e3" :> 1000) @@ IntValues

\* str(e) of the exception int(v) or float(v) raises for any other value.
ConversionError(v, fn) ==
    IF v \in {FormatsDict, config.formats}
    THEN IF fn = "int"
         THEN "int() argument must be a string, a bytes-like object or a real number, not 'dict'"
         ELSE "float() argument must be a string or a real number, not 'dict'"
    ELSE IF fn = "int"
         THEN "invalid literal for int() with base 10: '" \o v \o "'"
         ELSE "could not convert string to float: '" \o v \o "'"

\* scan_data.get(key, default)
Get(sd, key, default) == IF key \in DOMAIN sd THEN sd[key] ELSE default

\* x or y
Or(x, y) == IF bool(x) THEN x ELSE y

\* isinstance(v, dict)
IsDict(v) == v \in {FormatsDict, config.formats}

\* Lines 96-143 for the job fields sd and the scanOptions value o: the error
\* text of the first conversion that raises and no configuration, or no error
\* and the configuration the engine is built and started with.
resolve(sd, o) ==
    LET adbPort        == Get(sd, "adbPort", config.adb_port)
        kingdom        == Or(Get(sd, "kingdom", config.kingdom_name), "")
        amount         == Get(sd, "amount", Or(config.people_to_scan, "0"))
        powerThreshold == Get(sd, "powerThreshold", config.power_threshold)
        infoTime       == Get(sd, "infoTime", config.info_close)
        govTime        == Get(sd, "govTime", config.gov_close)
        formats        == Get(sd, "formats", "None")
        raised ==
            IF adbPort \notin DOMAIN IntValues THEN ConversionError(adbPort, "int")
            ELSE IF amount \notin DOMAIN IntValues THEN ConversionError(amount, "int")
            ELSE IF powerThreshold \notin DOMAIN IntValues
                 THEN ConversionError(powerThreshold, "int")
            ELSE IF infoTime \notin DOMAIN FloatValues
                 THEN ConversionError(infoTime, "float")
            ELSE IF govTime \notin DOMAIN FloatValues
                 THEN ConversionError(govTime, "float")
            ELSE NoErr
    IN  IF raised # NoErr
        THEN [err |-> raised, engine |-> <<>>]
        ELSE [err |-> NoErr,
              engine |-> <<[
                  bluestacks_port   |-> IntValues[adbPort],
                  kingdom           |-> kingdom,
                  amount            |-> IntValues[amount],
                  scan_options      |-> build_scan_options(Get(sd, "mode", "full"), o),
                  resume            |-> bool(Get(sd, "resume", config.resume)),
                  advanced_scroll   |-> bool(Get(sd, "advancedScroll", config.advanced_scroll)),
                  track_inactives   |-> bool(Get(sd, "trackInactives", config.track_inactives)),
                  validate_kills    |-> bool(Get(sd, "validateKills", config.validate_kills)),
                  reconstruct_kills |-> bool(Get(sd, "reconstructKills", config.reconstruct_kills)),
                  validate_power    |-> bool(Get(sd, "validatePower", config.validate_power)),
                  power_threshold   |-> IntValues[powerThreshold],
                  info_close        |-> FloatValues[infoTime],
                  gov_close         |-> FloatValues[govTime],
                  output_formats    |-> IF IsDict(formats) THEN formats ELSE config.formats
              ]>>]

\* The job fields of a document: at most MaxFields of the keys, each with one
\* of the values.
ScanData ==
    UNION {[K -> FieldValues] :
              K \in {S \in SUBSET JobKeys : Cardinality(S) <= MaxFields}}

\* One pass through lines 96-143, from the job fields to the configuration.
call_resolve ==
    /\ job_spec = <<>>
    /\ job_spec' = resolve(scan_data, overrides)
    /\ UNCHANGED <<docs, runners, events, faults, mode, overrides, scan_options, scan_data>>

InitResolve ==
    /\ docs = [d \in Docs |-> [status |-> "pending", progress |-> 0, logs |-> <<>>]]
    /\ runners = EmptyBag
    /\ events = 0
    /\ faults = 0
    /\ mode = "full"
    /\ overrides \in {None, Some("Helps" :> "False")}
    /\ scan_options = <<>>
    /\ scan_data \in ScanData
    /\ job_spec = <<>>

NextResolve == call_resolve

SpecResolve == InitResolve /\ [][NextResolve]_vars

Init ==
    /\ docs = [d \in Docs |-> [status |-> "pending", progress |-> 0, logs |-> <<>>]]
    /\ runners = EmptyBag
    /\ events = 0
    /\ faults = 0
    /\ NoCall

\* on_snapshot(c) at a change that does not qualify leaves every variable as it
\* is: those steps are stuttering steps, which [Next]_vars allows anyway, so
\* Next draws the changes that start a thread.
Next ==
    \/ \E c \in {x \in Changes : Qualifies(x)} : on_snapshot(c) /\ UNCHANGED call
    \/ \E t \in Threads, amount \in Amounts, ok \in BOOLEAN :
           report_started(t, amount, ok) /\ UNCHANGED call
    \/ \E t \in Threads, ok \in BOOLEAN : state_callback(t, ok) /\ UNCHANGED call
    \/ \E t \in Threads, ok \in BOOLEAN : log_to_firestore(t, ok) /\ UNCHANGED call
    \/ \E t \in Threads, current, target \in 0..MaxGov, ok \in BOOLEAN :
           gov_callback(t, current, target, ok) /\ UNCHANGED call
    \/ \E t \in Threads : engine_raise(t) /\ UNCHANGED call
    \/ \E t \in Threads, ok \in BOOLEAN : log_completed(t, ok) /\ UNCHANGED call
    \/ \E t \in Threads, ok \in BOOLEAN : report_completed(t, ok) /\ UNCHANGED call
    \/ \E t \in Threads, ok \in BOOLEAN : log_error(t, ok) /\ UNCHANGED call
    \/ \E t \in Threads, ok \in BOOLEAN : report_failed(t, ok) /\ UNCHANGED call

Spec == Init /\ [][Next]_vars

\* A job in mid-run: its thread has made the start write and is inside
\* start_scan, and the engine has already reported a governor (or none yet), so
\* the document's progress is a value gov_callback wrote (or still 0).  From
\* there the program goes on as from Init.
InitRunning ==
    /\ \E c \in 0..MaxGov, target \in 1..MaxGov :
          docs = [d \in Docs |->
                    IF d = "d1"
                    THEN [status |-> "running", progress |-> Progress(c, target),
                          logs |-> <<StartMarker>>]
                    ELSE [status |-> "pending", progress |-> 0, logs |-> <<>>]]
    /\ runners = SetToBag({[doc |-> "d1", pc |-> "engine", err |-> NoErr]})
    /\ events = 0
    /\ faults = 0
    /\ NoCall

SpecRunning == InitRunning /\ [][Next]_vars


\* The program with a document store that accepts every write.
NextReliable ==
    \/ \E c \in {x \in Changes : Qualifies(x)} : on_snapshot(c) /\ UNCHANGED call
    \/ \E t \in Threads, amount \in Amounts :
           report_started(t, amount, TRUE) /\ UNCHANGED call
    \/ \E t \in Threads : state_callback(t, TRUE) /\ UNCHANGED call
    \/ \E t \in Threads : log_to_firestore(t, TRUE) /\ UNCHANGED call
    \/ \E t \in Threads, current, target \in 0..MaxGov :
           gov_callback(t, current, target, TRUE) /\ UNCHANGED call
    \/ \E t \in Threads : engine_raise(t) /\ UNCHANGED call
    \/ \E t \in Threads : log_completed(t, TRUE) /\ UNCHANGED call
    \/ \E t \in Threads : report_completed(t, TRUE) /\ UNCHANGED call
    \/ \E t \in Threads : log_error(t, TRUE) /\ UNCHANGED call
    \/ \E t \in Threads : report_failed(t, TRUE) /\ UNCHANGED call

\* The steps a started thread takes by itself once it is scheduled: its own
\* statements, and the return or the raise of a start_scan that does not run
\* for ever.  The callbacks are the engine's choice and carry no fairness.
Scheduled ==
    /\ \E t \in Threads :
          \/ \E amount \in Amounts : report_started(t, amount, TRUE)
          \/ engine_raise(t)
          \/ log_completed(t, TRUE)
          \/ report_completed(t, TRUE)
          \/ log_error(t, TRUE)
          \/ report_failed(t, TRUE)
    /\ UNCHANGED call

\* The threads of threading.Thread are scheduled by the operating system: a
\* thread that can take a step is not held back for ever.
SpecLive == Init /\ [][NextReliable]_vars /\ WF_vars(Scheduled)


\* ---------------------------------------------------------------- claims

\* The threads ever started for document d.
Spawned(d) ==
    BagCardinality([t \in {x \in Threads : x.doc = d} |-> CopiesIn(t, runners)])

\* Thread t has just made its terminal write and returned.
TerminalWriteBy(t) ==
    /\ t.pc \in {"report_done", "except_report"}
    /\ runners' = Step(runners, t, Returned(t))

Before(a, b, logs) ==
    \E i, j \in 1..Len(logs) : i < j /\ logs[i] = a /\ logs[j] = b

\* C1: whatever batches on_snapshot is handed, at most one run_scan_bot thread
\* is ever started per document.
AdmittedOncePerDocument == \A d \in Docs : Spawned(d) <= 1

Forward ==
    {<<"pending", "running">>, <<"running", "completed">>, <<"running", "failed">>}

\* C2: a document's status changes only along pending -> running ->
\* {completed, failed}.
StatusOnlyMovesForward ==
    [][\A d \in Docs : \/ docs'[d].status = docs[d].status
                       \/ <<docs[d].status, docs'[d].status>> \in Forward]_vars

\* C3: no exception leaves run_scan_bot, whichever step of the job fails.
NoExceptionLeavesRunner == \A t \in Threads : t.pc # "raised"

\* C4: when start_scan raises, the except block leaves the document with
\* status failed and the error text in logs, and no step of it touches
\* progress.
EngineFailureEndsFailed ==
    [][\A t \in Threads :
         LET d == t.doc IN
         /\ (t.pc = "engine" /\ runners' = Step(runners, t, Caught(t, ErrEngine)))
                => docs' = docs
         /\ (t.pc = "except_log" /\ t.err = ErrEngine
                /\ runners' = Step(runners, t, Goto(t, "except_report")))
                => /\ ErrorLine(ErrEngine) \in Range(docs'[d].logs)
                   /\ docs'[d].progress = docs[d].progress
                   /\ docs'[d].status = docs[d].status
         /\ (t.err = ErrEngine /\ TerminalWriteBy(t))
                => /\ docs'[d].status = "failed"
                   /\ ErrorLine(ErrEngine) \in Range(docs'[d].logs)
                   /\ docs'[d].progress = docs[d].progress]_vars

\* A job whose engine raised after reporting governor 1 of 2 has ended: failed,
\* the error text logged, progress still 50.
EngineFailureWitness ==
    \E d \in Docs :
        /\ Spawned(d) = 1
        /\ \E t \in Threads : t.doc = d /\ t.pc = "returned"
        /\ docs[d].status = "failed"
        /\ docs[d].progress = 50
        /\ ErrorLine(ErrEngine) \in Range(docs[d].logs)

\* C5: when start_scan returns, the thread's last write sets status completed
\* and progress 100 on a document that has left pending through running, and
\* whenever status is completed the logs hold the start marker and, after it,
\* the completion marker.
NormalRunCompletes ==
    /\ [](\A d \in Docs : docs[d].status = "completed"
              => Before(StartMarker, DoneMarker, docs[d].logs))
    /\ [][\A d \in Docs :
            /\ (docs[d].status = "pending" /\ docs'[d].status # "pending")
                  => docs'[d].status = "running"
            /\ \A t \in Threads :
                  (t.doc = d /\ t.pc = "report_done" /\ TerminalWriteBy(t))
                  => /\ docs[d].status # "pending"
                     /\ docs'[d].status = "completed"
                     /\ docs'[d].progress = 100
                     /\ Before(StartMarker, DoneMarker, docs'[d].logs)]_vars

\* The only job of a document has returned from a normal run.
NormalRunWitness ==
    \E d \in Docs :
        /\ Spawned(d) = 1
        /\ \E t \in Threads : t.doc = d /\ t.pc = "returned"
        /\ docs[d] = [status |-> "completed", progress |-> 100,
                      logs |-> <<StartMarker, DoneMarker>>]

\* C6: a terminal write on a document whose status is already completed or
\* failed leaves the status as it is.
TerminalWriteIsIdempotent ==
    [][\A t \in Threads :
         (TerminalWriteBy(t) /\ docs[t.doc].status \in Terminal)
         => docs'[t.doc].status = docs[t.doc].status]_vars

\* C7: a governor report with target 0 does not raise: no thread ever holds
\* the division fault.
ZeroTargetDoesNotRaise == \A t \in Threads : t.err # ErrDivZero

\* C8: a step of a thread changes no document but the thread's own: a step
\* that changes a document is a step of no thread bound to another document.
WritesStayOnOwnDocument ==
    [][\A t \in Threads : \A d \in Docs \ {t.doc} :
         docs'[d] # docs[d] => ~run_scan_bot(t)]_vars

\* Two jobs on two documents have both ended, one failed and one completed,
\* and the completed one shows nothing of the other's failure.
TwoJobsWitness ==
    \E d, e \in Docs :
        /\ d # e
        /\ Spawned(d) = 1 /\ Spawned(e) = 1
        /\ \A t \in Threads : t.pc = "returned"
        /\ docs[d].status = "failed"
        /\ ErrorLine(ErrEngine) \in Range(docs[d].logs)
        /\ docs[e] = [status |-> "completed", progress |-> 100,
                      logs |-> <<StartMarker, DoneMarker>>]

\* C9: a change starts a thread exactly when it is an added document whose
\* fields say pending, the thread being bound to that document; no change
\* makes on_snapshot write a document.
AdmitsOnlyPendingAdds ==
    [][\A c \in Changes : on_snapshot(c)
         => /\ docs' = docs
            /\ IF c.type = "ADDED" /\ c.status = "pending"
               THEN runners' = runners (+) SetToBag({[doc |-> c.doc, pc |-> "start", err |-> NoErr]})
               ELSE runners' = runners]_vars

\* A thread has been started for a pending document and nothing has been
\* written to the document yet.
AdmissionWitness ==
    \E t \in Threads :
        /\ t.pc = "start"
        /\ docs[t.doc] = [status |-> "pending", progress |-> 0, logs |-> <<>>]

\* C10: on_snapshot can take its next change, and start a thread for it, in
\* every state, whatever the threads started earlier are doing.
DispatcherNeverWaits ==
    \A c \in Changes :
        (c.type = "ADDED" /\ c.status = "pending" => BagCardinality(runners) < MaxRunners)
        => ENABLED on_snapshot(c)

\* A thread is inside start_scan and there is room for another thread.
BlockedRunnerWitness ==
    /\ \E t \in Threads : t.pc = "engine"
    /\ BagCardinality(runners) < MaxRunners

\* The fifteen option names of a scan.
FixedFields ==
    {"ID", "Name", "Power", "Killpoints", "Alliance",
     "T1 Kills", "T2 Kills", "T3 Kills", "T4 Kills", "T5 Kills",
     "Ranged", "Deads", "Rss Assistance", "Rss Gathered", "Helps"}

\* C11: _build_scan_options returns a map over exactly the fifteen option
\* names; a name the overrides carry has the override's boolean value, any other
\* has the profile's value: the seed profile (ID, Name, Power, Killpoints,
\* Alliance true, the rest false) when mode is "seed", all true otherwise; a
\* foreign override key changes nothing.
ScanOptionsContract ==
    scan_options # <<>> =>
        /\ DOMAIN scan_options = FixedFields
        /\ \A k \in FixedFields :
              IF overrides # None /\ k \in DOMAIN overrides[1]
              THEN scan_options[k] = (overrides[1][k] \in {"True", "false"})
              ELSE scan_options[k] =
                      IF mode = "seed"
                      THEN k \in {"ID", "Name", "Power", "Killpoints", "Alliance"}
                      ELSE TRUE

\* A seed scan was built with an override that switches Helps on and a foreign
\* key: Helps is on, Deads keeps the seed profile's value.
ScanOptionsWitness ==
    /\ scan_options # <<>>
    /\ mode = "seed"
    /\ overrides # None
    /\ DOMAIN overrides[1] = {"Helps", "City Hall"}
    /\ overrides[1]["Helps"] = "True"
    /\ scan_options["Helps"] = TRUE
    /\ scan_options["Deads"] = FALSE

\* C12: a job whose fields cannot be coerced goes from the start write straight
\* into the except block: its thread never enters the engine (so no callback
\* fires for it), the error text is added to logs and the terminal write sets
\* status failed.
ResolutionFailureEndsFailed ==
    /\ [](\A t \in Threads : t.err = ErrResolve
              => t.pc \in {"except_log", "except_report", "raised"})
    /\ [][\A t \in Threads :
            LET d == t.doc IN
            /\ report_started(t, "abc", TRUE)
                  => /\ runners' = Step(runners, t, Caught(t, ErrResolve))
                     /\ events' = events
            /\ (t.pc = "except_log" /\ t.err = ErrResolve
                   /\ runners' = Step(runners, t, Goto(t, "except_report")))
                  => /\ ErrorLine(ErrResolve) \in Range(docs'[d].logs)
                     /\ docs'[d].status = docs[d].status
            /\ (t.err = ErrResolve /\ TerminalWriteBy(t))
                  => /\ docs'[d].status = "failed"
                     /\ ErrorLine(ErrResolve) \in Range(docs'[d].logs)]_vars

\* The only job of a document had a field int() rejects: it has ended failed,
\* with the start marker and the error text as its whole log, and no callback
\* has fired.
ResolutionFailureWitness ==
    \E d \in Docs :
        /\ Spawned(d) = 1
        /\ \E t \in Threads : t.doc = d /\ t.pc = "returned"
        /\ events = 0
        /\ docs[d] = [status |-> "failed", progress |-> 0,
                      logs |-> <<StartMarker, ErrorLine(ErrResolve)>>]

\* A value the field named k cannot be made of: no integer for an integer
\* field, no number for a float field, no boolean for a boolean field, no dict
\* for the output formats.
NonCoercible(k, v) ==
    \/ k \in {"adbPort", "amount", "powerThreshold"} /\ v \in {"abc", "1e3", FormatsDict}
    \/ k \in {"infoTime", "govTime"} /\ v \in {"abc", FormatsDict}
    \/ k \in {"resume", "advancedScroll", "trackInactives", "validateKills",
              "reconstructKills", "validatePower"} /\ v \in {"abc", "1e3", FormatsDict}
    \/ k = "formats" /\ v # FormatsDict

\* C13: resolution is all or nothing: a field set to a value it cannot be
\* made of fails the resolution and no configuration reaches the engine;
\* otherwise the engine gets a configuration in which an absent key has the
\* process-wide default and a present key its coerced value.
ResolutionAllOrNothing ==
    job_spec # <<>> =>
        IF \E k \in DOMAIN scan_data : NonCoercible(k, scan_data[k])
        THEN job_spec.err # NoErr /\ job_spec.engine = <<>>
        ELSE /\ job_spec.err = NoErr
             /\ Len(job_spec.engine) = 1
             /\ LET js == job_spec.engine[1]
                    Has(k) == k \in DOMAIN scan_data
                    AsInt(v) == IF v = "50" THEN 50 ELSE 0
                    AsFloat(v) == IF v = "50" THEN 50 ELSE IF v = "1e3" THEN 1000 ELSE 0
                    AsBool(v) == v = "50"
                IN  /\ js.bluestacks_port = IF Has("adbPort") THEN AsInt(scan_data["adbPort"]) ELSE 5555
                    /\ js.amount = IF Has("amount") THEN AsInt(scan_data["amount"]) ELSE 600
                    /\ js.power_threshold =
                          IF Has("powerThreshold") THEN AsInt(scan_data["powerThreshold"]) ELSE 100
                    /\ js.info_close = IF Has("infoTime") THEN AsFloat(scan_data["infoTime"]) ELSE 1
                    /\ js.gov_close = IF Has("govTime") THEN AsFloat(scan_data["govTime"]) ELSE 1
                    /\ js.resume = IF Has("resume") THEN AsBool(scan_data["resume"]) ELSE FALSE
                    /\ js.advanced_scroll =
                          IF Has("advancedScroll") THEN AsBool(scan_data["advancedScroll"]) ELSE TRUE
                    /\ js.track_inactives =
                          IF Has("trackInactives") THEN AsBool(scan_data["trackInactives"]) ELSE FALSE
                    /\ js.validate_kills =
                          IF Has("validateKills") THEN AsBool(scan_data["validateKills"]) ELSE TRUE
                    /\ js.reconstruct_kills =
                          IF Has("reconstructKills") THEN AsBool(scan_data["reconstructKills"]) ELSE TRUE
                    /\ js.validate_power =
                          IF Has("validatePower") THEN AsBool(scan_data["validatePower"]) ELSE FALSE
                    /\ js.output_formats =
                          IF Has("formats") THEN scan_data["formats"] ELSE "{'xlsx': True}"
                    /\ DOMAIN js.scan_options = FixedFields

\* Thread t has taken a step and is now in state u.
MovedTo(t, u) == u # t /\ runners' = Step(runners, t, u)

\* C14: within a job the writes go start write, then log and progress writes,
\* then one terminal write, the last: a thread ends only by taking its
\* terminal write, and a thread that has issued its terminal write ends with
\* it, issuing no write after it.
WriteOrderWithinJob ==
    [][\A t \in Threads : \A u \in BagToSet(runners') :
         MovedTo(t, u) =>
            /\ u.pc \in {"returned", "raised"}
                  => t.pc \in {"report_done", "except_report"}
            /\ t.pc \in {"report_done", "except_report"}
                  => u.pc \in {"returned", "raised"}]_vars

\* C15: within a run, progress is set to 0 by the start write and never goes
\* down afterwards: on a document with a single thread, a step other than that
\* thread's start write leaves progress at least where it was.
ProgressNeverDecreases ==
    [][\A t \in Threads :
         /\ (\E amount \in Amounts : report_started(t, amount, TRUE))
               => docs'[t.doc].progress = 0
         /\ (Spawned(t.doc) = 1 /\ t.pc # "start")
               => docs'[t.doc].progress >= docs[t.doc].progress]_vars

\* C16: the progress of every document is a whole number from 0 to 100,
\* whatever governor counts the engine reports.
ProgressInRange == \A d \in Docs : docs[d].progress \in 0..100

\* C17: a write issued by an engine callback that the document store refuses
\* does not abort the scan: the step in which a callback fires and its write
\* fails leaves every thread where it was, inside start_scan.
CallbackWriteFailureKeepsScanning ==
    [][(events' > events /\ faults' > faults) => runners' = runners]_vars

\* C18: a terminal write the document store refuses is issued again: the
\* thread is still at that write after the refusal.
TerminalWriteRetried ==
    [][\A t \in Threads :
         (t.pc \in {"report_done", "except_report"} /\ faults' > faults)
         => \A u \in BagToSet(runners') : ~MovedTo(t, u)]_vars

\* C19: with threads that are scheduled, an engine call that returns or
\* raises and a document store that accepts every write, a document for which
\* a thread has been started reaches status completed or failed.
EveryJobEnds ==
    \A d \in Docs : (Spawned(d) > 0) ~> (docs[d].status \in Terminal)

\* Two jobs have ended with every write accepted: one through a field int()
\* rejects, failed; the other through a normal run, completed.
EveryJobEndsWitness ==
    \E d, e \in Docs :
        /\ d # e
        /\ faults = 0
        /\ Spawned(d) = 1 /\ Spawned(e) = 1
        /\ \A t \in Threads : t.pc = "returned"
        /\ docs[d].status = "failed"
        /\ ErrorLine(ErrResolve) \in Range(docs[d].logs)
        /\ docs[e].status = "completed"

\* C20: a document whose status is completed has progress 100, in every
\* state.
CompletedMeansFullProgress ==
    \A d \in Docs : docs[d].status = "completed" => docs[d].progress = 100

====
